---- MODULE Spec2Model ----
(***************************************************************************)
(* A model of demandlib/power_bdew.py: the BDEW standard load profile      *)
(* engine (bdew_elec_slp) and the industrial profile generator             *)
(* (IndustrialLoadProfile).                                                *)
(*                                                                         *)
(* Instants are minutes since 2015-01-01 00:00 (a Thursday); the calendar  *)
(* arithmetic below is the proleptic Gregorian one of datetime.            *)
(* Numbers the code holds as floats are exact rationals <<num, den>>.      *)
(***************************************************************************)
EXTENDS Integers, Sequences, FiniteSets, TLC

VARIABLES
    pc,          \* position of the operation under way
    dt_index,    \* the calendar handed to the constructor (sequence of instants)
    holidays,    \* the external holiday set (set of day numbers)
    periods,     \* self.periods
    year,        \* self._year
    time_df,     \* time_df / self.dataframe: per position, weekday and hour
    selp_series, \* the quarter-hour reference table read from selp_series.csv
    tmp_df,      \* the hourly reduction of the reference table
    new_df,      \* the output frame of the standardized engine
    todo,        \* the periods the loop of line 81 still has to visit
    kwargs,      \* the keyword arguments of simple_profile
    ind,         \* self.dataframe['ind']
    result,      \* what simple_profile returns
    logged,      \* whether logging.error was called
    now          \* the instant a calendar walk stands at

vars == <<pc, dt_index, holidays, periods, year, time_df, selp_series, tmp_df,
          new_df, todo, kwargs, ind, result, logged, now>>

(***************************************************************************)
(* Calendar arithmetic (datetime, DatetimeIndex.year/.hour/.weekday)       *)
(***************************************************************************)
Years == 2015..2018

IsLeap(y) == (y % 4 = 0 /\ y % 100 # 0) \/ y % 400 = 0

DaysInYear(y) == IF IsLeap(y) THEN 366 ELSE 365

DaysInMonth(y, m) ==
    IF m = 2 THEN (IF IsLeap(y) THEN 29 ELSE 28)
    ELSE IF m \in {4, 6, 9, 11} THEN 30 ELSE 31

RECURSIVE DaysBeforeYear(_)
DaysBeforeYear(y) ==
    IF y = 2015 THEN 0
    ELSE IF y > 2015 THEN DaysBeforeYear(y - 1) + DaysInYear(y - 1)
    ELSE DaysBeforeYear(y + 1) - DaysInYear(y)

RECURSIVE DaysBeforeMonth(_, _)
DaysBeforeMonth(y, m) == IF m <= 1 THEN 0 ELSE DaysBeforeMonth(y, m - 1) + DaysInMonth(y, m - 1)

\* pd.datetime(y, mo, d, h, mi)
datetime(y, mo, d, h, mi) ==
    ((DaysBeforeYear(y) + DaysBeforeMonth(y, mo) + (d - 1)) * 24 + h) * 60 + mi

DayNumber(t) == t \div 1440
MinuteOfDay(t) == t % 1440
HourOf(t) == MinuteOfDay(t) \div 60
YearOf(t) == CHOOSE y \in Years : DaysBeforeYear(y) <= DayNumber(t)
                                  /\ DayNumber(t) < DaysBeforeYear(y) + DaysInYear(y)
\* DatetimeIndex.weekday: Monday = 0 .. Sunday = 6
IndexWeekday(t) == (DayNumber(t) + 3) % 7

(***************************************************************************)
(* Period configuration and the windows of lines 82-85                     *)
(***************************************************************************)
summer == <<"s", "u", "m", "m", "e", "r">>
transition == <<"t", "r", "a", "n", "s", "i", "t", "i", "o", "n">>
winter == <<"w", "i", "n", "t", "e", "r">>
spring == <<"s", "p", "r", "i", "n", "g">>

Name(base, digit) == Append(base, digit)

DefaultPeriodsGap ==
    (Name(summer, "1") :> <<5, 15, 9, 14>>) @@ (Name(transition, "1") :> <<3, 22, 5, 14>>)
    @@ (Name(transition, "2") :> <<9, 15, 10, 31>>) @@ (Name(winter, "1") :> <<1, 1, 3, 20>>)
    @@ (Name(winter, "2") :> <<11, 1, 12, 31>>)

DefaultPeriods ==
    (Name(summer, "1") :> <<5, 15, 9, 14>>) @@ (Name(transition, "1") :> <<3, 21, 5, 14>>)
    @@ (Name(transition, "2") :> <<9, 15, 10, 31>>) @@ (Name(winter, "1") :> <<1, 1, 3, 20>>)
    @@ (Name(winter, "2") :> <<11, 1, 12, 31>>)

\* a and b of lines 82-85
WindowStart(y, per, p) == datetime(y, per[p][1], per[p][2], 0, 0)
WindowEnd(y, per, p) == datetime(y, per[p][3], per[p][4], 23, 59)

\* time_df[a:b]: label slicing of a sorted DatetimeIndex keeps both ends
InSlice(t, a, b) == a <= t /\ t <= b

InWindow(t, y, per, p) == InSlice(t, WindowStart(y, per, p), WindowEnd(y, per, p))

WindowsOf(t, y, per) == {p \in DOMAIN per : InWindow(t, y, per, p)}

(***************************************************************************)
(* A walk over every hourly and quarter-hourly instant of a year, with     *)
(* the default configuration resolved for that year.                       *)
(***************************************************************************)
Idle == <<>>

YearInit ==
    /\ pc = "walk"
    /\ year \in Years
    /\ periods = DefaultPeriods
    /\ now = datetime(year, 1, 1, 0, 0)
    /\ dt_index = Idle /\ holidays = {} /\ time_df = Idle
    /\ selp_series = Idle /\ tmp_df = Idle
    /\ new_df = Idle /\ todo = {} /\ kwargs = Idle /\ ind = Idle
    /\ result = Idle /\ logged = FALSE

InYear(t, y) == datetime(y, 1, 1, 0, 0) <= t /\ t <= datetime(y, 12, 31, 23, 59)

StepQuarter ==
    /\ pc = "walk"
    /\ InYear(now + 15, year)
    /\ now' = now + 15
    /\ UNCHANGED <<pc, dt_index, holidays, periods, year, time_df, selp_series,
                   tmp_df, new_df, todo, kwargs, ind, result, logged>>

StepHour ==
    /\ pc = "walk"
    /\ InYear(now + 60, year)
    /\ now' = now + 60
    /\ UNCHANGED <<pc, dt_index, holidays, periods, year, time_df, selp_series,
                   tmp_df, new_df, todo, kwargs, ind, result, logged>>

YearNext == StepQuarter \/ StepHour

SpecYear == YearInit /\ [][YearNext]_vars

\* C2: with the default configuration, every hourly or quarter-hourly instant
\* of the year lies inside the window of exactly one of the five periods
\* (no gap, no overlap), in leap and non-leap years alike.
C2_DefaultPartition ==
    pc = "walk" => Cardinality(WindowsOf(now, year, periods)) = 1

\* The walk stands on 29 February 23:45 of a leap year, inside winter1.
C2_Witness ==
    /\ pc = "walk" /\ IsLeap(year)
    /\ now = datetime(year, 2, 29, 23, 45)
    /\ WindowsOf(now, year, periods) = {Name(winter, "1")}

(***************************************************************************)
(* Exact rationals <<num, den>>, den > 0, in lowest terms                  *)
(***************************************************************************)
RECURSIVE GCD(_, _)
GCD(a, b) == IF b = 0 THEN a ELSE GCD(b, a % b)

Abs(n) == IF n < 0 THEN -n ELSE n

\* n / d; a zero denominator gives nan (<<0, 0>>) or +-inf (<<+-1, 0>>)
Rat(n, d) ==
    IF d = 0 THEN <<(IF n > 0 THEN 1 ELSE IF n < 0 THEN -1 ELSE 0), 0>>
    ELSE LET g == GCD(Abs(n), Abs(d))
             s == IF d < 0 THEN -1 ELSE 1
         IN  <<(s * n) \div g, (s * d) \div g>>

NaN == <<0, 0>>

Zero == <<0, 1>>
RAdd(x, y) == Rat(x[1] * y[2] + y[1] * x[2], x[2] * y[2])
RMul(x, y) == Rat(x[1] * y[1], x[2] * y[2])
RDiv(x, y) == Rat(x[1] * y[2], x[2] * y[1])

(***************************************************************************)
(* The reference table and its hourly reduction (lines 50-56, 67-79)       *)
(***************************************************************************)
slp_types == <<"h0", "g0", "g1", "g2", "g3", "g4", "g5", "g6", "l0", "l1", "l2">>
SlpTypes == {slp_types[k] : k \in DOMAIN slp_types}
TypeIndex(c) == CHOOSE k \in DOMAIN slp_types : slp_types[k] = c

RefRows == 2016
RefFreq == 15
QuartersPerDay == 96
RefSeasons == <<winter, summer, transition>>

\* index of line 53: pd.date_range(pd.datetime(2007, 1, 1, 0), periods=2016, freq='15Min')
RefIndex(r) == datetime(2007, 1, 1, 0, 0) + RefFreq * r

\* The table the package ships: 21 days, one per (season, weekday), the
\* values of a row all distinct and non-zero.
ShippedRow(r) ==
    [period  |-> RefSeasons[((r \div QuartersPerDay) \div 7) + 1],
     weekday |-> ((r \div QuartersPerDay) % 7) + 1,
     vals    |-> [c \in SlpTypes |-> r * Len(slp_types) + TypeIndex(c)]]

ShippedTable == [r \in 0..(RefRows - 1) |-> ShippedRow(r)]

\* pd.TimeGrouper(freq='H'): the calendar hour a row falls into
HourBucket(t) == t \div 60

\* the rows of the table in hour bucket b (the index is sorted, 15 minutes apart)
RowsIn(table, b) ==
    LET first == (b * 60 - RefIndex(0)) \div RefFreq
    IN  {r \in (first - 4)..(first + 4) : r \in DOMAIN table /\ HourBucket(RefIndex(r)) = b}

RECURSIVE SumVals(_, _, _)
SumVals(table, rows, c) ==
    IF rows = {} THEN 0
    ELSE LET r == CHOOSE x \in rows : TRUE
         IN  table[r].vals[c] + SumVals(table, rows \ {r}, c)

Max(S) == CHOOSE x \in S : \A y \in S : y <= x

\* agg 'mean' for the slp columns
AggMean(table, rows, c) == Rat(SumVals(table, rows, c), Cardinality(rows))
\* agg 'last' for period and weekday
AggLast(rows) == Max(rows)

\* line 75: tmp_df['hour_of_day'] = tmp_df.index.hour + 1
HourOfDay12(b) == (HourOf(b * 60) % 12) + 1
HourOfDay(b) == HourOf(b * 60) + 1

\* lines 67-79: group by hour, aggregate, add hour_of_day, reset the index
Reduce(table) ==
    LET b0 == HourBucket(RefIndex(0))
        bn == HourBucket(RefIndex(Max(DOMAIN table)))
    IN  [k \in 0..(bn - b0) |->
            LET rows == RowsIn(table, b0 + k)
            IN  [period      |-> table[AggLast(rows)].period,
                 weekday     |-> table[AggLast(rows)].weekday,
                 vals        |-> [c \in SlpTypes |-> AggMean(table, rows, c)],
                 hour_of_day |-> HourOfDay(b0 + k)]]

Key(row) == <<row.period, row.weekday, row.hour_of_day>>

(***************************************************************************)
(* The reducer on reference tables that differ from the shipped one in     *)
(* the labels of one day and of one quarter-hour row.                      *)
(***************************************************************************)
MaxRelabelDay == 1
MaxGlitch == 1
GlitchRows == <<3, 1, 97>>

Relabel(d, s, w, g) ==
    [r \in 0..(RefRows - 1) |->
        IF g > 0 /\ r = GlitchRows[g]
        THEN [ShippedRow(r) EXCEPT !.weekday = (ShippedRow(r).weekday % 7) + 1]
        ELSE IF r \div QuartersPerDay = d
        THEN [ShippedRow(r) EXCEPT !.period = s, !.weekday = w]
        ELSE ShippedRow(r)]

ReduceInit ==
    /\ pc = "read"
    /\ \E d \in 0..MaxRelabelDay, s \in {winter, summer, transition}, w \in 1..7,
          g \in 0..MaxGlitch :
          selp_series = Relabel(d, s, w, g)
    /\ tmp_df = Idle
    /\ dt_index = Idle /\ holidays = {} /\ time_df = Idle /\ periods = Idle
    /\ year = 0 /\ now = 0
    /\ new_df = Idle /\ todo = {} /\ kwargs = Idle /\ ind = Idle
    /\ result = Idle /\ logged = FALSE

ReduceTable ==
    /\ pc = "read"
    /\ tmp_df' = Reduce(selp_series)
    /\ pc' = "reduced"
    /\ UNCHANGED <<dt_index, holidays, periods, year, time_df, selp_series,
                   new_df, todo, kwargs, ind, result, logged, now>>

ReduceNext == ReduceTable

SpecReduce == ReduceInit /\ [][ReduceNext]_vars

\* period and weekday are the same in all rows of every calendar hour
LabelsConstantPerHour(table) ==
    \A r \in DOMAIN table :
        LET l == AggLast(RowsIn(table, HourBucket(RefIndex(r))))
        IN  table[r].period = table[l].period /\ table[r].weekday = table[l].weekday

\* no (period, weekday) pair labels rows of two calendar days
LabelsOncePerDay(table) ==
    \A s \in {table[r].period : r \in DOMAIN table}, w \in {table[r].weekday : r \in DOMAIN table} :
        Cardinality({DayNumber(RefIndex(r)) : r \in {x \in DOMAIN table :
                        table[x].period = s /\ table[x].weekday = w}}) <= 1

UniqueKeys(reduced) ==
    \A k1, k2 \in DOMAIN reduced : Key(reduced[k1]) = Key(reduced[k2]) => k1 = k2

\* C7 as claimed: every table whose labels are constant within each calendar
\* hour reduces to at most one row per (period, weekday, hour_of_day).
C7_UniqueKeysWhenConstantPerHour ==
    (pc = "reduced" /\ LabelsConstantPerHour(selp_series)) => UniqueKeys(tmp_df)

\* C7 as amended: every table whose labels are constant within each calendar
\* hour, and in which no (period, weekday) pair labels two calendar days,
\* reduces to at most one row per (period, weekday, hour_of_day).
C7_UniqueKeysWhenOncePerDay ==
    (pc = "reduced" /\ LabelsConstantPerHour(selp_series) /\ LabelsOncePerDay(selp_series))
        => UniqueKeys(tmp_df)

\* A table that meets both conditions has been reduced to one row per hour.
C7_Witness ==
    /\ pc = "reduced"
    /\ LabelsConstantPerHour(selp_series) /\ LabelsOncePerDay(selp_series)
    /\ Cardinality(DOMAIN tmp_df) * 4 = RefRows

(***************************************************************************)
(* The calendar classifier, tools.add_weekdays2df (not among the sources;  *)
(* after the description of the classifier and the comment of line 58):    *)
(* weekday = index.weekday + 1, a date of the holidays handed in becomes   *)
(* 0, and with holiday_is_sunday every 0 becomes 7.                        *)
(***************************************************************************)
add_weekdays2df(index, hol, holiday_is_sunday) ==
    [i \in DOMAIN index |->
        IF DayNumber(index[i]) \in hol
        THEN (IF holiday_is_sunday THEN 7 ELSE 0)
        ELSE IndexWeekday(index[i]) + 1]

(***************************************************************************)
(* bdew_elec_slp                                                           *)
(***************************************************************************)
YearPos == 1000

\* line 27: date_time_index.year[1000]; an index of at most 1000 elements
\* raises IndexError
YearElementFirst(index) ==
    IF Len(index) > 0
    THEN [year |-> YearOf(index[1]), ok |-> TRUE]
    ELSE [year |-> 0, ok |-> FALSE]

YearElement(index) ==
    IF Len(index) > YearPos
    THEN [year |-> YearOf(index[YearPos + 1]), ok |-> TRUE]
    ELSE [year |-> 0, ok |-> FALSE]

\* p[:-1]
StripNothing(p) == p
StripLast(p) == SubSeq(p, 1, Len(p) - 1)

ZeroRow == [c \in SlpTypes |-> Zero]

\* lines 59 and 68-71: a frame over the calendar, every slp column set to 0
InitialFrameNaN(index) == [i \in DOMAIN index |-> [c \in SlpTypes |-> NaN]]
InitialFrame(index) == [i \in DOMAIN index |-> ZeroRow]

\* line 87: tmp_df[tmp_df['period'] == p[:-1]]
PeriodSubset(reduced, p) == {k \in DOMAIN reduced : reduced[k].period = StripLast(p)}

\* a function held as a table of its values
Table(f) == f @@ <<>>

\* the rows of a subset by join key (weekday, hour_of_day)
JoinIndex(reduced, K) ==
    LET keys == Table([k \in K |-> <<reduced[k].weekday, reduced[k].hour_of_day>>])
    IN  Table([key \in (0..7) \X (1..24) |-> {k \in DOMAIN keys : keys[k] = key}])

\* time_df[a:b]: the positions of the calendar inside the window
SliceWhole(index, a, b) == DOMAIN index
Slice(index, a, b) == {i \in DOMAIN index : InSlice(index[i], a, b)}

\* lines 86-90: the inner join of the period's reference rows with the slice
\* time_df[a:b], indexed by the positions of the slice that found a row
Merged(reduced, tdf, index, y, per, p) ==
    LET idx == JoinIndex(reduced, PeriodSubset(reduced, p))
        hit == {i \in Slice(index, WindowStart(y, per, p), WindowEnd(y, per, p)) :
                   idx[<<tdf[i].weekday, tdf[i].hour>>] # {}}
    IN  [i \in hit |-> idx[<<tdf[i].weekday, tdf[i].hour>>]]

\* new_df.update(...): only the rows of the joined frame are written
UpdateReplace(frame, reduced, merged) ==
    [i \in DOMAIN frame |->
        IF i \in DOMAIN merged
        THEN reduced[CHOOSE k \in merged[i] : TRUE].vals
        ELSE ZeroRow]

Update(frame, reduced, merged) ==
    [i \in DOMAIN frame |->
        IF i \in DOMAIN merged
        THEN reduced[CHOOSE k \in merged[i] : TRUE].vals
        ELSE frame[i]]

\* a row of the slice that found two reference rows gives the joined frame a
\* repeated index label, which update cannot align
Ambiguous(merged) == \E i \in DOMAIN merged : Cardinality(merged[i]) > 1

DateRange(start, freq, n) == [i \in 1..n |-> start + freq * (i - 1)]

MaxExtra == 1

Calendars ==
    {DateRange(c[1], c[2], YearPos + k) :
        c \in {<<datetime(2015, 3, 1, 0, 0), 60>>,
               <<datetime(2015, 3, 18, 0, 0), 15>>,
               <<datetime(2016, 1, 1, 0, 0), 5 * 60>>,
               <<datetime(2015, 11, 1, 0, 0), 25 * 60>>},
        k \in 0..MaxExtra}

\* 2015-03-23 is a Monday, 2016-01-01 a Friday, 2018-05-01 a Tuesday
SomeHolidays ==
    {DayNumber(datetime(2015, 3, 23, 0, 0)), DayNumber(datetime(2016, 1, 1, 0, 0)),
     DayNumber(datetime(2018, 5, 1, 0, 0))}

OverlappingPeriods ==
    (Name(winter, "1") :> <<1, 1, 3, 25>>) @@ (Name(summer, "1") :> <<3, 20, 12, 31>>)

GappedPeriods ==
    (Name(winter, "1") :> <<1, 1, 3, 19>>) @@ (Name(spring, "1") :> <<3, 22, 5, 31>>)
    @@ (Name(summer, "1") :> <<7, 1, 12, 31>>)

CustomPeriods == {OverlappingPeriods, GappedPeriods}

SlpInit ==
    /\ pc = "new"
    /\ dt_index \in Calendars
    /\ holidays \in {{}, SomeHolidays}
    /\ kwargs \in {[periods |-> <<>>, given |-> FALSE]}
                  \cup {[periods |-> c, given |-> TRUE] : c \in CustomPeriods}
    /\ selp_series = ShippedTable
    /\ periods = Idle /\ year = 0 /\ time_df = Idle /\ tmp_df = Idle
    /\ new_df = Idle /\ todo = {} /\ ind = Idle /\ result = Idle
    /\ logged = FALSE /\ now = 0

\* lines 16-27 and 45-79: the constructor up to the loop over the periods
Construct ==
    /\ pc = "new"
    /\ periods' = IF kwargs.given THEN kwargs.periods ELSE DefaultPeriods
    /\ IF YearElement(dt_index).ok
       THEN /\ year' = YearElement(dt_index).year
            /\ tmp_df' = Reduce(selp_series)
            /\ time_df' = LET wd == add_weekdays2df(dt_index, {}, FALSE)
                          IN  [i \in DOMAIN dt_index |->
                                  [weekday |-> wd[i], hour |-> HourOf(dt_index[i]) + 1]]
            /\ new_df' = InitialFrame(dt_index)
            /\ todo' = DOMAIN periods'
            /\ pc' = "loop"
       ELSE /\ pc' = "error"
            /\ UNCHANGED <<year, tmp_df, time_df, new_df, todo>>
    /\ UNCHANGED <<dt_index, holidays, selp_series, kwargs, ind, result, logged, now>>

\* lines 81-90: one pass of the loop; a dictionary's keys come in no fixed order
UpdatePeriod(p) ==
    /\ pc = "loop"
    /\ p \in todo
    /\ LET merged == Merged(tmp_df, time_df, dt_index, year, periods, p)
       IN  IF Ambiguous(merged)
           THEN pc' = "error" /\ UNCHANGED <<new_df, todo>>
           ELSE /\ new_df' = Update(new_df, tmp_df, merged)
                /\ todo' = todo \ {p}
                /\ pc' = "loop"
    /\ UNCHANGED <<dt_index, holidays, periods, year, time_df, selp_series, tmp_df,
                   kwargs, ind, result, logged, now>>

\* lines 92, 35-38 and 28: the frame is returned and kept as slp_frame
Finish ==
    /\ pc = "loop"
    /\ todo = {}
    /\ result' = new_df
    /\ pc' = "done"
    /\ UNCHANGED <<dt_index, holidays, periods, year, time_df, selp_series, tmp_df,
                   new_df, todo, kwargs, ind, logged, now>>

SlpNext == Construct \/ (\E p \in todo : UpdatePeriod(p)) \/ Finish

SpecSlp == SlpInit /\ [][SlpNext]_vars

(***************************************************************************)
(* Properties of the standardized engine                                   *)
(***************************************************************************)
Built == pc \in {"loop", "done"}

\* per period, its window and its reference rows by join key
Windows == Table([p \in DOMAIN periods |->
               <<WindowStart(year, periods, p), WindowEnd(year, periods, p)>>])
RowsByKey == Table([p \in DOMAIN periods |-> JoinIndex(tmp_df, PeriodSubset(tmp_df, p))])

Inside(win, i, p) == InSlice(dt_index[i], win[p][1], win[p][2])
KeyOf(i) == <<time_df[i].weekday, time_df[i].hour>>

\* no timestamp of the calendar lies in two windows / each lies in exactly one
NoOverlap(win) ==
    \A i \in DOMAIN dt_index : Cardinality({p \in DOMAIN periods : Inside(win, i, p)}) <= 1
Partitioned(win) ==
    \A i \in DOMAIN dt_index : Cardinality({p \in DOMAIN periods : Inside(win, i, p)}) = 1
Covered(rows) ==
    \A p \in DOMAIN periods, key \in (1..7) \X (1..24) : rows[p][key] # {}

\* C1 as claimed: after construction, every timestamp inside the window of a
\* period p holds, for every customer class, the value of the reduced row of
\* p's base label with the timestamp's weekday class and hour of day.
C1_WindowSlotHoldsRowOfItsPeriod ==
    pc = "done" =>
        LET win == Windows
            rows == RowsByKey
        IN  \A p \in DOMAIN periods, i \in DOMAIN dt_index :
                (Inside(win, i, p) /\ rows[p][KeyOf(i)] # {})
                    => \A k \in rows[p][KeyOf(i)] : new_df[i] = tmp_df[k].vals

\* C1 as amended: after construction, every timestamp that lies inside the
\* window of p and of no other period, and whose key has a reduced row of p's
\* base label, has exactly one such row and holds its values; when every
\* timestamp lies in exactly one window and the reference covers every
\* (weekday class, hour of day) of every period, no slot is left at zero.
C1_SoleWindowSlotHoldsRowOfItsPeriod ==
    pc = "done" =>
        LET win == Windows
            rows == RowsByKey
        IN  /\ \A p \in DOMAIN periods, i \in DOMAIN dt_index :
                   (/\ Inside(win, i, p)
                    /\ \A q \in DOMAIN periods : Inside(win, i, q) => q = p
                    /\ rows[p][KeyOf(i)] # {})
                       => /\ Cardinality(rows[p][KeyOf(i)]) = 1
                          /\ \A k \in rows[p][KeyOf(i)] : new_df[i] = tmp_df[k].vals
            /\ (Partitioned(win) /\ Covered(rows))
                   => \A i \in DOMAIN dt_index, c \in SlpTypes : new_df[i][c] # Zero

\* A partitioned calendar has been assembled from three periods: its first
\* timestamp (Friday 2016-01-01 00:00) holds the winter row of Friday, hour 1.
C1_Witness ==
    /\ pc = "done"
    /\ Partitioned(Windows) /\ Covered(RowsByKey)
    /\ Cardinality({new_df[i] : i \in DOMAIN dt_index}) > 4 * 24
    /\ \E k \in DOMAIN tmp_df :
          /\ Key(tmp_df[k]) = <<winter, 5, 1>>
          /\ new_df[1] = tmp_df[k].vals

\* C3 as claimed: every timestamp of the engine's calendar whose date is in
\* the holiday set has weekday class 7.
C3_HolidayHasClassSeven ==
    Built => \A i \in DOMAIN dt_index :
                 DayNumber(dt_index[i]) \in holidays => time_df[i].weekday = 7

RECURSIVE AssembleAll(_, _)
AssembleAll(frame, ps) ==
    IF ps = {} THEN frame
    ELSE LET p == CHOOSE x \in ps : TRUE
         IN  AssembleAll(Update(frame, tmp_df,
                                Merged(tmp_df, time_df, dt_index, year, periods, p)),
                         ps \ {p})

\* When no timestamp of the calendar lies in two windows, every order of the
\* periods ends in the same frame (the one of a fixed order), and each pass
\* leaves the slots outside its window as they were and finds the slots
\* inside it still at zero.
C8_FinalFrame ==
    (pc = "done" /\ NoOverlap(Windows))
        => new_df = AssembleAll(InitialFrame(dt_index), DOMAIN periods)

C8_PassWritesOwnWindow ==
    (pc = "loop" /\ pc' = "loop" /\ todo' # todo /\ NoOverlap(Windows))
        => LET win == Windows
           IN  \A p \in todo \ todo', i \in DOMAIN dt_index :
                   IF Inside(win, i, p)
                   THEN new_df[i] = ZeroRow
                   ELSE new_df'[i] = new_df[i]

\* C8: both parts, the final frame in every state and the frame effect in
\* every pass of the loop.
C8_OrderIndependent == [](C8_FinalFrame) /\ [][C8_PassWritesOwnWindow]_vars

\* Windows that do not overlap have been processed, and at least three of
\* the periods wrote slots.
C8_Witness ==
    /\ pc = "done"
    /\ NoOverlap(Windows)
    /\ Cardinality({p \in DOMAIN periods :
                       \E i \in DOMAIN dt_index :
                           Inside(Windows, i, p) /\ new_df[i] # ZeroRow}) >= 3

\* a timestamp that no window contains, or whose key has no reduced row in
\* any period whose window contains it
Missed(win, rows, i) ==
    \A p \in DOMAIN periods : Inside(win, i, p) => rows[p][KeyOf(i)] = {}

\* C9: a timestamp that no window contains, or whose key has no reduced row
\* in the reference subset of its period, is at 0 for every customer class
\* throughout and after the loop; the passes over the periods never raise.
C9_MissKeepsZero ==
    /\ Built =>
           LET win == Windows
               rows == RowsByKey
           IN  \A i \in DOMAIN dt_index : Missed(win, rows, i) => new_df[i] = ZeroRow
    /\ pc = "error" => ~YearElement(dt_index).ok

\* Construction is over with a timestamp in no window, a timestamp inside
\* the window of a period without reference rows, and a written timestamp.
C9_Witness ==
    /\ pc = "done"
    /\ \E i \in DOMAIN dt_index :
          /\ \A p \in DOMAIN periods : ~Inside(Windows, i, p)
          /\ new_df[i] = ZeroRow
    /\ \E i \in DOMAIN dt_index, p \in DOMAIN periods :
          /\ Inside(Windows, i, p) /\ RowsByKey[p][KeyOf(i)] = {}
          /\ new_df[i] = ZeroRow
    /\ \E i \in DOMAIN dt_index : new_df[i] # ZeroRow

\* C10: the year of every window is the year of the calendar's element at
\* position 1000; on a calendar of at most 1000 timestamps construction ends
\* in an error with no frame, and on a longer one every timestamp of another
\* year lies in no window and stays at 0.
C10_YearOfElement1000 ==
    /\ (pc # "new" /\ Len(dt_index) <= YearPos)
           => (pc = "error" /\ new_df = Idle /\ result = Idle)
    /\ Built => (Len(dt_index) > YearPos /\ year = YearOf(dt_index[YearPos + 1]))
    /\ pc = "done" =>
              LET win == Windows
              IN  \A i \in DOMAIN dt_index :
                      YearOf(dt_index[i]) # year
                          => /\ \A p \in DOMAIN periods : ~Inside(win, i, p)
                             /\ new_df[i] = ZeroRow /\ result[i] = ZeroRow

\* A calendar that starts in 2015 and whose element 1000 lies in 2018 has
\* been assembled: its first timestamp is at 0, its last one is written.
C10_Witness ==
    /\ pc = "done"
    /\ YearOf(dt_index[1]) = 2015 /\ year = 2018
    /\ new_df[1] = ZeroRow
    /\ new_df[Len(dt_index)] # ZeroRow

(***************************************************************************)
(* IndustrialLoadProfile                                                   *)
(***************************************************************************)
settime(h, m) == h * 60 + m

\* lines 136-144: the defaults of simple_profile
DefaultAm == settime(7, 0)
DefaultPm == settime(23, 30)
DefaultWeek == {1, 2, 3, 4, 5}
DefaultWeekend == {0, 6, 7}
DefaultFactors ==
    [week    |-> [day |-> Rat(8, 10), night |-> Rat(6, 10)],
     weekend |-> [day |-> Rat(9, 10), night |-> Rat(7, 10)]]

\* Series.between_time(start, end): both ends belong to the window, and a
\* window whose start is after its end runs over midnight
BetweenTime(t, start, end) ==
    IF start <= end
    THEN start <= MinuteOfDay(t) /\ MinuteOfDay(t) <= end
    ELSE start <= MinuteOfDay(t) \/ MinuteOfDay(t) <= end

\* series.mask(df['weekday'].between_time(start, end).isin(days), other, True)
Mask(series, index, tdf, start, end, days, other) ==
    [i \in DOMAIN series |->
        IF BetweenTime(index[i], start, end) /\ tdf[i].weekday \in days
        THEN other
        ELSE series[i]]

\* lines 146-159: the column of zeros and the four masks, in the code's order
Factors(index, tdf, kw) ==
    LET s0 == [i \in DOMAIN index |-> Zero]
        s1 == Mask(s0, index, tdf, kw.am, kw.pm, kw.week, kw.profile_factors.week.day)
        s2 == Mask(s1, index, tdf, kw.pm, kw.am, kw.week, kw.profile_factors.week.night)
        s3 == Mask(s2, index, tdf, kw.am, kw.pm, kw.weekend, kw.profile_factors.weekend.day)
        s4 == Mask(s3, index, tdf, kw.pm, kw.am, kw.weekend, kw.profile_factors.weekend.night)
    IN  s4

RECURSIVE SeriesSum(_, _)
SeriesSum(series, n) == IF n = 0 THEN Zero ELSE RAdd(SeriesSum(series, n - 1), series[n])

\* lines 164-165: ind / ind.sum() * annual_demand
NormalizeByCount(series, annual_demand) ==
    [i \in DOMAIN series |->
        RMul(RDiv(series[i], Rat(Len(series), 1)), Rat(annual_demand, 1))]

Normalize(series, annual_demand) ==
    LET total == SeriesSum(series, Len(series))
    IN  [i \in DOMAIN series |-> RMul(RDiv(series[i], total), Rat(annual_demand, 1))]

MaxIndLen == 4
MaxDemand == 2

\* 2015-01-01 is a Thursday, 2015-01-02 a Friday, 2015-03-22 a Sunday
IndCalendars ==
    {DateRange(start, freq, n) :
        start \in {datetime(2015, 1, 1, 6, 0), datetime(2015, 1, 2, 22, 30),
                   datetime(2015, 3, 22, 6, 0)},
        freq \in {30, 60, 12 * 60},
        n \in 1..MaxIndLen}

OtherFactors ==
    [week    |-> [day |-> Rat(1, 1), night |-> Rat(0, 1)],
     weekend |-> [day |-> Rat(1, 2), night |-> Rat(0, 1)]]

DaySets == {<<DefaultWeek, DefaultWeekend>>, <<{1, 2, 3, 4}, {6, 7}>>, <<{1, 2, 3, 4, 5}, {5, 6, 7}>>}

IndInit ==
    /\ pc = "new"
    /\ dt_index \in IndCalendars
    /\ holidays \in {{}, SomeHolidays}
    /\ kwargs = Idle /\ time_df = Idle /\ ind = Idle /\ result = Idle
    /\ logged = FALSE
    /\ periods = Idle /\ year = 0 /\ selp_series = Idle /\ tmp_df = Idle
    /\ new_df = Idle /\ todo = {} /\ now = 0

\* lines 105-111
IndustrialInit ==
    /\ pc = "new"
    /\ time_df' = LET wd == add_weekdays2df(dt_index, holidays, TRUE)
                  IN  [i \in DOMAIN dt_index |->
                          [weekday |-> wd[i], hour |-> HourOf(dt_index[i]) + 1]]
    /\ pc' = "ready"
    /\ UNCHANGED <<dt_index, holidays, periods, year, selp_series, tmp_df, new_df,
                   todo, kwargs, ind, result, logged, now>>

\* lines 114-165
SimpleProfile(kw) ==
    /\ pc \in {"ready", "profiled"}
    /\ kwargs' = kw
    /\ ind' = Factors(dt_index, time_df, kw)
    /\ logged' = (logged \/ \E i \in DOMAIN ind' : ind'[i] = NaN)
    /\ result' = Normalize(ind', kw.annual_demand)
    /\ pc' = "profiled"
    /\ UNCHANGED <<dt_index, holidays, periods, year, time_df, selp_series, tmp_df,
                   new_df, todo, now>>

IndNext ==
    \/ IndustrialInit
    \/ \E d \in (1..MaxDemand) \cup {1000},
          w \in {<<DefaultAm, DefaultPm>>, <<settime(6, 0), settime(18, 0)>>},
          ds \in DaySets, f \in {DefaultFactors, OtherFactors} :
          SimpleProfile([week |-> ds[1], weekend |-> ds[2], am |-> w[1], pm |-> w[2],
                         profile_factors |-> f, annual_demand |-> d])

SpecInd == IndInit /\ [][IndNext]_vars

Profiled == pc = "profiled"

\* C4: for a positive annual_demand and factors whose sum is not zero, the
\* returned series sums to annual_demand, each value being its timestamp's
\* factor divided by the sum of the factors, times annual_demand.
C4_SumsToAnnualDemand ==
    (Profiled /\ SeriesSum(ind, Len(ind)) # Zero /\ kwargs.annual_demand > 0) =>
        /\ SeriesSum(result, Len(result)) = Rat(kwargs.annual_demand, 1)
        /\ \A i \in DOMAIN result :
               result[i] = RMul(RDiv(ind[i], SeriesSum(ind, Len(ind))),
                                Rat(kwargs.annual_demand, 1))

\* Four half-hourly timestamps from Friday 22:30 with the default arguments
\* have the factors 0.8, 0.8, 0.6, 0.7: a demand of 1000 has been spread in
\* that ratio.
C4_Witness ==
    /\ Profiled
    /\ kwargs.annual_demand = 1000
    /\ ind = <<Rat(8, 10), Rat(8, 10), Rat(6, 10), Rat(7, 10)>>
    /\ result[1] = Rat(8000, 29) /\ result[3] = Rat(6000, 29)

\* the factor of the bucket a timestamp belongs to when day is [am, pm)
BucketFactor(i) ==
    LET days == IF time_df[i].weekday \in kwargs.week THEN "week" ELSE "weekend"
        part == IF kwargs.am <= MinuteOfDay(dt_index[i]) /\ MinuteOfDay(dt_index[i]) < kwargs.pm
                THEN "day" ELSE "night"
    IN  kwargs.profile_factors[days][part]

\* C5 as claimed: with week and weekend disjoint, every timestamp whose
\* weekday class is in one of them gets the factor of its bucket, day being
\* the half-open window [am, pm) and night its complement.
C5_BucketOfHalfOpenDay ==
    (Profiled /\ kwargs.week \cap kwargs.weekend = {}) =>
        \A i \in DOMAIN ind :
            time_df[i].weekday \in (kwargs.week \cup kwargs.weekend)
                => ind[i] = BucketFactor(i)

\* C6 as claimed: a timestamp whose weekday class is in neither week nor
\* weekend is left null, never zero, and a diagnostic is recorded.
C6_UnclassifiedIsNull ==
    Profiled =>
        \A i \in DOMAIN ind :
            time_df[i].weekday \notin (kwargs.week \cup kwargs.weekend)
                => (ind[i] = NaN /\ ind[i] # Zero /\ logged)

====
